---- MODULE Spec2Model ----
(***************************************************************************)
(* Model of avail.py: the interactive query loop (input_loop), the six     *)
(* platform adapters (get_X_opts and find_opts_X), the fetch helper          *)
(* (get_soup) and the placeholder cache (get_cached).                      *)
(*                                                                         *)
(* Text is modelled at character level: a Python str is a sequence of      *)
(* one-character strings, so that x[0], x[-1], lstrip, split, index and    *)
(* slicing are computed as the code computes them.  A parsed page (soup)   *)
(* is a record of the views the code reads from it:                        *)
(*   pres   find_all('pre')   : <<[sourceline, lines]>> (text split on \n) *)
(*   ided   elements with id  : <<[id, sourceline]>> in document order     *)
(*   text   soup.text lines   : <<line>>                                   *)
(*   tts    find_all('tt')    : <<text>>                                   *)
(*   dts    find_all('dt')    : <<text>>                                   *)
(*   h3s    find_all('h3')    : <<[text, sourceline]>>                     *)
(*   bolds  span class=bold   : <<[text, sourceline]>>                     *)
(* A value a function may raise instead of returning is a record with the  *)
(* field exc ("" when the call returned).                                  *)
(***************************************************************************)
EXTENDS Integers, Sequences, FiniteSets, TLC

VARIABLES
    pc,            \* position of the process in main/input_loop
    command,       \* shlex.split(user_input) of the current iteration
    web,           \* what each page answers for the current command name
    linux_opts, description, freebsd_opts, solaris_opts, aix_opts,
    plan_9_opts, posix_7_opts,   \* locals of input_loop
    report,        \* what the current iteration printed
    exc,           \* the exception that ended the process ("" if none)
    fetch_log,     \* the requests.get calls issued in the current iteration
    served,        \* cache study: keys already fetched successfully
    refetched,     \* cache study: fetches issued for a key after it was served
    soup_in, section_in, sect_out  \* section study: input and result

vars == <<pc, command, web, linux_opts, description, freebsd_opts,
          solaris_opts, aix_opts, plan_9_opts, posix_7_opts, report, exc,
          fetch_log, served, refetched, soup_in, section_in, sect_out>>

-----------------------------------------------------------------------------
(* Python values *)

\* None / a set of options, as returned by the get_X_opts adapters.
NotFound == [found |-> FALSE, opts |-> {}]
Found(S) == [found |-> TRUE, opts |-> S]

\* Python truthiness of an adapter result: None and set() are both falsy.
Truthy(r) == r.found /\ r.opts # {}

\* Python's None where a soup or a description is expected.
None == "None"

NoDescription == [present |-> FALSE, text |-> <<>>]

Range(s) == {s[i] : i \in 1..Len(s)}

NON_OPTS_CHARS == {".", ",", ";", ")", "]", "}", "!"}

WHITESPACE == {" ", "\n"}

RECURSIVE LStrip(_)
LStrip(s) ==
    IF s = <<>> THEN <<>>
    ELSE IF Head(s) \in WHITESPACE THEN LStrip(Tail(s)) ELSE s

RECURSIVE RStrip(_)
RStrip(s) ==
    IF s = <<>> THEN <<>>
    ELSE IF s[Len(s)] \in WHITESPACE THEN RStrip(SubSeq(s, 1, Len(s) - 1)) ELSE s

\* The leading run of non-whitespace characters of s.
RECURSIVE TakeWord(_)
TakeWord(s) ==
    IF s = <<>> \/ Head(s) \in WHITESPACE THEN <<>>
    ELSE <<Head(s)>> \o TakeWord(Tail(s))

\* line.lstrip().split(maxsplit=1): the empty list for a blank line, else
\* the first word followed by the rest; only element [0] is ever used.
SplitHasFirst(line) == LStrip(line) # <<>>
SplitFirst(line) == TakeWord(LStrip(line))

\* s.index(c) as a 0-based position, -1 standing for ValueError.
RECURSIVE IndexFrom(_, _, _)
IndexFrom(s, c, i) ==
    IF i > Len(s) THEN -1
    ELSE IF s[i] = c THEN i - 1 ELSE IndexFrom(s, c, i + 1)
Index(s, c) == IndexFrom(s, c, 1)

\* s[a:b] with 0-based a >= 0 and b possibly negative, as Python slices.
PySlice(s, a, b) ==
    LET n  == Len(s)
        bb == IF b < 0 THEN (IF n + b < 0 THEN 0 ELSE n + b)
              ELSE (IF b > n THEN n ELSE b)
        aa == IF a > n THEN n ELSE a
    IN  IF aa >= bb THEN <<>> ELSE SubSeq(s, aa + 1, bb)

\* "line[0] == '-' and line != '-'" on a non-empty word.
LooksLikeOpt(w) == w[1] = "-" /\ w # <<"-">>

\* "Remove false positives": {o for o in opts if not o[-1] in NON_OPTS_CHARS}
RemoveFalsePositives(S) == {o \in S : o[Len(o)] \notin NON_OPTS_CHARS}

-----------------------------------------------------------------------------
(* Pages *)

\* The URL templates, lines 17-27.  The AIX template carries a volume
\* number (AIX_MAN_PAGES.replace('{}', str(volume), 1)); the others carry 0.
Page(site, volume) == [site |-> site, volume |-> volume]
LINUX_MAN_PAGES         == Page("LINUX", 0)
FREEBSD_MAN_PAGES       == Page("FREEBSD", 0)
SOLARIS_USER_MAN_PAGES  == Page("SOLARIS_USER", 0)
SOLARIS_ADMIN_MAN_PAGES == Page("SOLARIS_ADMIN", 0)
PLAN_9_MAN_PAGES        == Page("PLAN_9", 0)
POSIX7_PAGES            == Page("POSIX7", 0)
AIX_MAN_PAGES(volume)   == Page("AIX", volume)

NUM_AIX_CMD_VOLUMES == 6

AixVolumes == 1..NUM_AIX_CMD_VOLUMES

Pages == {LINUX_MAN_PAGES, FREEBSD_MAN_PAGES, SOLARIS_USER_MAN_PAGES,
          SOLARIS_ADMIN_MAN_PAGES, PLAN_9_MAN_PAGES, POSIX7_PAGES}
         \cup {AIX_MAN_PAGES(v) : v \in AixVolumes}

SYNOPSIS_LINE == <<" ", " ", " ", " ", " ", "S", "Y", "N", "O", "P", "S", "I", "S">>

\* A page that documents -i everywhere the adapters look, among words the
\* adapters must reject ("-", "-x,", "-q.", "-v)", plain words).
DocRich ==
    [pres  |-> << [sourceline |-> 10, lines |-> << <<" ", " ", "l", "s", " ", "-", " ", "l", "i", "s", "t">> >>],
                  [sourceline |-> 14, lines |-> << <<>>, <<"l", "i", "s", "t", " ", " ", "f", "i", "l", "e", "s">>, <<>> >>],
                  [sourceline |-> 20, lines |-> << <<>>, <<" ", " ", "-", "i">>, <<" ", " ", "t", "e", "x", "t", ".">>,
                                                   <<" ", " ", "-">>, <<" ", " ", "-", "x", ",">> >>] >>,
     ided  |-> << [id |-> "NAME", sourceline |-> 10], [id |-> "OPTIONS", sourceline |-> 20] >>,
     text  |-> << <<"N", "A", "M", "E">>, SYNOPSIS_LINE,
                  <<" ", " ", " ", " ", " ", "l", "s", " ", "[", " ", "-", "i", " ", "]", " ", "n", "a", "m", "e">>,
                  <<>>, <<" ", " ", "-", "i", " ", " ", "i", "g", "n", "o", "r", "e">>,
                  <<" ", " ", "-">>, <<" ", " ", "-", "q", ".">> >>,
     tts   |-> << <<"l", "s">>, <<"-", "i">>, <<"-">>, <<"-", "v", ")">>, <<>> >>,
     dts   |-> << <<"-", "i">>, <<"-">>, <<"-", "v", ")">>, <<>>, <<"l", "s">> >>,
     h3s   |-> << [text |-> "Syntax", sourceline |-> 5], [text |-> "Flags", sourceline |-> 10],
                  [text |-> "Examples", sourceline |-> 20] >>,
     bolds |-> << [text |-> <<"l", "s">>, sourceline |-> 6], [text |-> <<"-", "i">>, sourceline |-> 12],
                  [text |-> <<"-">>, sourceline |-> 13], [text |-> <<"-", "v", ")">>, sourceline |-> 14],
                  [text |-> <<"-", "Z">>, sourceline |-> 22] >>]

\* A page of the same shape that documents no option at all.
DocBare ==
    [pres  |-> << [sourceline |-> 10, lines |-> << <<" ", " ", "l", "s", " ", "-", " ", "l", "i", "s", "t">> >>],
                  [sourceline |-> 14, lines |-> << <<" ">>, <<>> >>] >>,
     ided  |-> << [id |-> "NAME", sourceline |-> 10] >>,
     text  |-> << <<"N", "A", "M", "E">>, SYNOPSIS_LINE,
                  <<" ", " ", " ", " ", " ", "l", "s", " ", "n", "a", "m", "e">>, <<" ">> >>,
     tts   |-> << <<"l", "s">> >>,
     dts   |-> << >>,
     h3s   |-> << [text |-> "Syntax", sourceline |-> 5], [text |-> "Examples", sourceline |-> 20] >>,
     bolds |-> << [text |-> <<"l", "s">>, sourceline |-> 6] >>]

\* The HTTP response of requests.get: its status, whether its text holds
\* the FreeBSD site's 'Sorry, no data found', and the document it parses to.
Response(status, sorry, doc) == [status_code |-> status, sorry |-> sorry, doc |-> doc]
NotFoundResponse == Response(404, FALSE, DocBare)
SorryResponse    == Response(200, TRUE, DocBare)

-----------------------------------------------------------------------------
(* get_cached, get_soup *)

\* get_cached: the placeholder, (soup, cache_hit) = (None, False) always.
get_cached(command_name) == [soup |-> None, cache_hit |-> FALSE]

\* get_soup(pages_string, command_name) against the response res that
\* the URL gives; down: requests.get raises (no connection) instead of
\* returning.  fetched tells whether requests.get was called.
get_soup(pages_string, command_name, res, down) ==
    LET cached == get_cached(command_name) IN
    IF cached.cache_hit
    THEN \* "return soup": one value where callers unpack two
         [exc |-> "TypeError", soup |-> cached.soup, page_found |-> FALSE, fetched |-> FALSE]
    ELSE IF down
    THEN [exc |-> "ConnectionError", soup |-> None, page_found |-> FALSE, fetched |-> TRUE]
    ELSE IF res.status_code < 200 \/ res.status_code > 299
    THEN [exc |-> "", soup |-> None, page_found |-> FALSE, fetched |-> TRUE]
    ELSE IF pages_string = FREEBSD_MAN_PAGES /\ res.sorry
    THEN [exc |-> "", soup |-> None, page_found |-> FALSE, fetched |-> TRUE]
    ELSE [exc |-> "", soup |-> res.doc, page_found |-> TRUE, fetched |-> TRUE]

-----------------------------------------------------------------------------
(* find_opts_X: the per-platform extraction.  Result: [exc, opts]. *)

Ret(S)   == [exc |-> "", opts |-> S]
Raise(e) == [exc |-> e, opts |-> {}]

FirstWords(lines) ==
    {SplitFirst(lines[i]) : i \in {j \in 1..Len(lines) : SplitHasFirst(lines[j])}}

find_opts_linux(soup, header) ==
    LET ids == SelectSeq(soup.ided, LAMBDA e : e.id = header) IN
    IF ids = <<>> THEN Ret({})
    ELSE
    LET header_source_line == ids[1].sourceline
        matching == SelectSeq(soup.pres, LAMBDA p : p.sourceline = header_source_line)
    IN  IF matching = <<>> THEN Raise("IndexError")
        ELSE
        LET opts_lines == SelectSeq(matching[1].lines, LAMBDA l : l # <<>>) IN
        IF \E i \in 1..Len(opts_lines) : ~SplitHasFirst(opts_lines[i])
        THEN Raise("IndexError")
        ELSE Ret(RemoveFalsePositives({w \in FirstWords(opts_lines) : LooksLikeOpt(w)}))

find_opts_freebsd(soup) ==
    Ret(RemoveFalsePositives({w \in FirstWords(soup.text) : LooksLikeOpt(w)}))

find_opts_plan_9(soup) ==
    LET lines == soup.text
        opts  == {w \in FirstWords(lines) : LooksLikeOpt(w)}
        at    == {i \in 1..Len(lines) : lines[i] = SYNOPSIS_LINE}
    IN  IF at = {} THEN Raise("ValueError")
        ELSE
        LET idx == CHOOSE i \in at : \A j \in at : i <= j IN
        IF idx + 1 > Len(lines) THEN Raise("IndexError")
        ELSE
        LET synopsis == lines[idx + 1]
            open     == Index(synopsis, "[")
            close    == Index(synopsis, "]")
            short_opts == PySlice(synopsis, open + 2, close - 1)
        IN  IF open = -1 THEN Ret(RemoveFalsePositives(opts))
            ELSE IF close = -1 THEN Raise("ValueError")
            ELSE IF short_opts = <<>> THEN Raise("IndexError")
            ELSE IF short_opts[1] = "-"
            THEN Ret(RemoveFalsePositives(
                     opts \cup {<<"-", short_opts[i]>> : i \in 2..Len(short_opts)}))
            ELSE Ret(RemoveFalsePositives(opts))

\* "o.text and o.text[0] == '-' and o.text != '-'" over a list of elements
TextOpts(texts) ==
    RemoveFalsePositives({t \in Range(texts) : t # <<>> /\ LooksLikeOpt(t)})

find_opts_posix_7(soup) == Ret(TextOpts(soup.dts))

find_opts_solaris(soup) == Ret(TextOpts(soup.tts))

find_opts_aix(soup, section) ==
    LET h3s    == soup.h3s
        search == SelectSeq(h3s, LAMBDA h : h.text = section)
    IN  IF search = <<>> THEN Ret({})
        ELSE
        LET flags_sourceline == search[1].sourceline
            later  == {x \in {h3s[i].sourceline : i \in 1..Len(h3s)} : x > flags_sourceline}
            cands  == soup.bolds
            after  == {i \in 1..Len(cands) : cands[i].sourceline > flags_sourceline}
        IN  IF later = {}
            THEN \* next_header_sourceline was never assigned
                 IF after = {} THEN Ret({}) ELSE Raise("UnboundLocalError")
            ELSE
            LET next_header_sourceline == CHOOSE x \in later : \A y \in later : x <= y
                inside == {i \in after : cands[i].sourceline < next_header_sourceline}
            IN  IF \E i \in inside : cands[i].text = <<>>
                THEN Raise("IndexError")
                ELSE Ret(RemoveFalsePositives(
                         {cands[i].text : i \in {j \in inside : LooksLikeOpt(cands[j].text)}}))

-----------------------------------------------------------------------------
(* get_X_opts: the adapters.  w maps each page to the response it gives   *)
(* for command_name; k is the position, among the requests the call       *)
(* makes, of the request that fails at transport level (0: none does).    *)
(* Result: [exc, val, desc, log], log being the pages requested in order. *)

Returned(val, desc, log) == [exc |-> "", val |-> val, desc |-> desc, log |-> log]
Raised(e, log) == [exc |-> e, val |-> NotFound, desc |-> NoDescription, log |-> log]

RECURSIVE Join(_)
Join(lines) ==
    IF lines = <<>> THEN <<>>
    ELSE IF Len(lines) = 1 THEN lines[1]
    ELSE lines[1] \o <<"\n">> \o Join(Tail(lines))

\* str.strip()
Strip(s) == RStrip(LStrip(s))

\* opts = set(); for section in search_sections: opts.update(find(soup, section))
\* with find raising or returning per section.
UnionSections(first, second) ==
    IF first.exc # "" THEN first
    ELSE IF second.exc # "" THEN second
    ELSE Ret(first.opts \cup second.opts)

get_linux_opts(command_name, w, k) ==
    LET g   == get_soup(LINUX_MAN_PAGES, command_name, w[LINUX_MAN_PAGES], k = 1)
        log == IF g.fetched THEN <<LINUX_MAN_PAGES>> ELSE <<>>
    IN  IF g.exc # "" THEN Raised(g.exc, log)
        ELSE IF ~g.page_found THEN Returned(NotFound, NoDescription, log)
        ELSE IF Len(g.soup.pres) < 2 THEN Raised("IndexError", log)
        ELSE
        LET desc == [present |-> TRUE, text |-> Strip(Join(g.soup.pres[2].lines))]
            o    == UnionSections(find_opts_linux(g.soup, "OPTIONS"),
                                  find_opts_linux(g.soup, "EXPRESSION"))
        IN  IF o.exc # "" THEN Raised(o.exc, log)
            ELSE Returned(Found(o.opts), desc, log)

\* The find_opts_X that goes with a page fetched in one request.
FindOpts(pages_string, soup) ==
    CASE pages_string = FREEBSD_MAN_PAGES -> find_opts_freebsd(soup)
      [] pages_string = PLAN_9_MAN_PAGES  -> find_opts_plan_9(soup)
      [] pages_string = POSIX7_PAGES      -> find_opts_posix_7(soup)

\* The shape shared by get_freebsd_opts, get_posix_7_opts and the fetching
\* branch of get_plan_9_opts: one get_soup, None if not page_found, else find.
SinglePage(pages_string, command_name, w, k) ==
    LET g   == get_soup(pages_string, command_name, w[pages_string], k = 1)
        log == IF g.fetched THEN <<pages_string>> ELSE <<>>
    IN  IF g.exc # "" THEN Raised(g.exc, log)
        ELSE IF ~g.page_found THEN Returned(NotFound, NoDescription, log)
        ELSE LET o == FindOpts(pages_string, g.soup)
             IN  IF o.exc # "" THEN Raised(o.exc, log)
                 ELSE Returned(Found(o.opts), NoDescription, log)

get_freebsd_opts(command_name, w, k) ==
    SinglePage(FREEBSD_MAN_PAGES, command_name, w, k)

CP  == <<"c", "p">>
FCP == <<"f", "c", "p">>
MV  == <<"m", "v">>
Opt(c) == <<"-", c>>

\* get_plan_9_opts with the 'mv' entry of the table returning None.
get_plan_9_opts_MvNone(command_name, w, k) ==
    IF command_name \in {CP, FCP}
    THEN Returned(Found({Opt("g"), Opt("u"), Opt("x")}), NoDescription, <<>>)
    ELSE IF command_name = MV
    THEN Returned(NotFound, NoDescription, <<>>)
    ELSE SinglePage(PLAN_9_MAN_PAGES, command_name, w, k)

get_plan_9_opts(command_name, w, k) ==
    IF command_name = CP
    THEN Returned(Found({Opt("g"), Opt("u"), Opt("x")}), NoDescription, <<>>)
    ELSE IF command_name = FCP
    THEN Returned(Found({Opt("g"), Opt("u"), Opt("x")}), NoDescription, <<>>)
    ELSE IF command_name = MV
    THEN Returned(Found({}), NoDescription, <<>>)
    ELSE SinglePage(PLAN_9_MAN_PAGES, command_name, w, k)

get_posix_7_opts(command_name, w, k) ==
    SinglePage(POSIX7_PAGES, command_name, w, k)

get_solaris_opts(command_name, w, k) ==
    LET u    == get_soup(SOLARIS_USER_MAN_PAGES, command_name,
                         w[SOLARIS_USER_MAN_PAGES], k = 1)
        ulog == IF u.fetched THEN <<SOLARIS_USER_MAN_PAGES>> ELSE <<>>
    IN  IF u.exc # "" THEN Raised(u.exc, ulog)
        ELSE IF u.page_found
        THEN Returned(Found(find_opts_solaris(u.soup).opts), NoDescription, ulog)
        ELSE
        LET a    == get_soup(SOLARIS_ADMIN_MAN_PAGES, command_name,
                             w[SOLARIS_ADMIN_MAN_PAGES], k = 2)
            alog == IF a.fetched THEN ulog \o <<SOLARIS_ADMIN_MAN_PAGES>> ELSE ulog
        IN  IF a.exc # "" THEN Raised(a.exc, alog)
            ELSE IF ~a.page_found THEN Returned(NotFound, NoDescription, alog)
            ELSE Returned(Found(find_opts_solaris(a.soup).opts), NoDescription, alog)

\* range(1, NUM_AIX_CMD_VOLUMES+1), the order in which volumes are tried
AixFirstVolume == 1
AixNextVolume(volume) == volume + 1

\* The loop without its break.
AixBreak_Never(page_found) == FALSE

\* "if page_found: break"
AixBreak(page_found) == page_found

\* The for loop of get_aix_opts from `volume` on: the (soup, page_found) it
\* leaves behind, or the exception that ended it.
RECURSIVE AixProbe(_, _, _, _, _)
AixProbe(volume, command_name, w, k, log) ==
    LET g    == get_soup(AIX_MAN_PAGES(volume), command_name,
                         w[AIX_MAN_PAGES(volume)], k = Len(log) + 1)
        log1 == IF g.fetched THEN Append(log, AIX_MAN_PAGES(volume)) ELSE log
    IN  IF g.exc # ""
        THEN [exc |-> g.exc, soup |-> None, page_found |-> FALSE, log |-> log1]
        ELSE IF AixBreak(g.page_found) \/ AixNextVolume(volume) \notin AixVolumes
        THEN [exc |-> "", soup |-> g.soup, page_found |-> g.page_found, log |-> log1]
        ELSE AixProbe(AixNextVolume(volume), command_name, w, k, log1)

get_aix_opts(command_name, w, k) ==
    LET p == AixProbe(AixFirstVolume, command_name, w, k, <<>>)
    IN  IF p.exc # "" THEN Raised(p.exc, p.log)
        ELSE IF ~p.page_found THEN Returned(NotFound, NoDescription, p.log)
        ELSE
        LET o == UnionSections(find_opts_aix(p.soup, "Flags"),
                               find_opts_aix(p.soup, "Expression Terms"))
        IN  IF o.exc # "" THEN Raised(o.exc, p.log)
            ELSE Returned(Found(o.opts), NoDescription, p.log)

-----------------------------------------------------------------------------
(* input_loop: what one iteration prints *)

\* user_opts = {x for x in command if x and x[0] == '-' and x != '-'}
UserOpts(cmd) == {x \in Range(cmd) : x # <<>> /\ x[1] = "-" /\ x # <<"-">>}

\* The guard written as "X_opts is None or opt not in X_opts".
NotPresentOn_NoneCounts(r, opt) == ~r.found \/ opt \notin r.opts

\* "if X_opts and opt not in X_opts", lines 88, 90, 92, 94
NotPresentOn(r, opt) == Truthy(r) /\ opt \notin r.opts

\* lines 86-95: the list built for one option
not_present_list(opt, l, f, p9, s) ==
    (IF NotPresentOn(l, opt)  THEN <<"GNU/Linux">> ELSE <<>>) \o
    (IF NotPresentOn(f, opt)  THEN <<"FreeBSD">>   ELSE <<>>) \o
    (IF NotPresentOn(p9, opt) THEN <<"Plan 9">>    ELSE <<>>) \o
    (IF NotPresentOn(s, opt)  THEN <<"Solaris">>   ELSE <<>>)

\* lines 76-83: the "is not available" notes, in the order printed
AbsenceNotes(f, p9, px, s) ==
    (IF ~f.found  THEN <<"FreeBSD">> ELSE <<>>) \o
    (IF ~p9.found THEN <<"Plan 9">>  ELSE <<>>) \o
    (IF ~px.found THEN <<"POSIX 7">> ELSE <<>>) \o
    (IF ~s.found  THEN <<"Solaris">> ELSE <<>>)

\* lines 100-110: the reference links, in the order printed
Links(l, f, p9, px) ==
    (IF l.found  THEN <<"Linux man page", "GNU HTML manual">> ELSE <<>>) \o
    (IF f.found  THEN <<"FreeBSD man page">> ELSE <<>>) \o
    (IF p9.found THEN <<"Plan 9 man page">>  ELSE <<>>) \o
    (IF px.found THEN <<"POSIX 7 reference page">> ELSE <<>>)

NoReport == [kind |-> "none", description |-> NoDescription, absent |-> <<>>,
             not_available |-> <<>>, links |-> <<>>]

\* line 62
FailedReport == [kind |-> "failed", description |-> NoDescription, absent |-> <<>>,
                 not_available |-> <<>>, links |-> <<>>]

\* lines 71-111
BuildReport(cmd, desc, l, f, s, a, p9, px) ==
    [kind          |-> "report",
     description   |-> IF desc.present /\ desc.text # <<>> THEN desc ELSE NoDescription,
     absent        |-> AbsenceNotes(f, p9, px, s),
     not_available |-> [opt \in UserOpts(cmd) |-> not_present_list(opt, l, f, p9, s)],
     links         |-> Links(l, f, p9, px)]

\* The test with its last conjunct written "aix_opts is not None".
TotalFailure_AixInverted(l, f, s, a) == ~l.found /\ ~f.found /\ ~s.found /\ a.found

\* lines 60-61
TotalFailure(l, f, s, a) == ~l.found /\ ~f.found /\ ~s.found /\ ~a.found

-----------------------------------------------------------------------------
(* The inputs of one iteration *)

\* What shlex.split can give for a line typed at the prompt.
UserInputs ==
    { <<>>,
      << <<"g", "r", "e", "p">>, Opt("i"), Opt("Z") >>,
      << MV, Opt("i"), <<"-">> >>,
      << FCP, Opt("g") >>,
      << CP, Opt("Z"), <<"f", "i", "l", "e">>, <<>> >> }

OkResponses == {Response(200, FALSE, DocRich), Response(200, FALSE, DocBare)}

\* Which AIX volumes hold the command: none; volume 4 only; volumes 2 and 5.
AixWorlds ==
    { [v \in AixVolumes |-> NotFoundResponse],
      [v \in AixVolumes |-> IF v = 4 THEN Response(200, FALSE, DocRich) ELSE NotFoundResponse],
      [v \in AixVolumes |-> IF v = 2 THEN Response(200, FALSE, DocBare)
                            ELSE IF v = 5 THEN Response(200, FALSE, DocRich)
                            ELSE NotFoundResponse] }

MakeWeb(l, f, su, sa, p9, px, a) ==
    [p \in Pages |->
        CASE p = LINUX_MAN_PAGES         -> l
          [] p = FREEBSD_MAN_PAGES       -> f
          [] p = SOLARIS_USER_MAN_PAGES  -> su
          [] p = SOLARIS_ADMIN_MAN_PAGES -> sa
          [] p = PLAN_9_MAN_PAGES        -> p9
          [] p = POSIX7_PAGES            -> px
          [] OTHER                       -> a[p.volume]]

Worlds ==
    { MakeWeb(l, f, su, sa, p9, px, a) :
        l  \in OkResponses \cup {NotFoundResponse},
        f  \in OkResponses \cup {NotFoundResponse, SorryResponse},
        su \in OkResponses \cup {NotFoundResponse},
        sa \in {Response(200, FALSE, DocRich), NotFoundResponse},
        p9 \in OkResponses \cup {NotFoundResponse},
        px \in OkResponses \cup {NotFoundResponse},
        a  \in AixWorlds }

BlankWeb == [p \in Pages |-> NotFoundResponse]

-----------------------------------------------------------------------------
(* main and input_loop as a process *)

command_name == command[1]

StudyUnchanged == UNCHANGED <<served, refetched, soup_in, section_in, sect_out>>

Init ==
    /\ pc = "input"
    /\ command = <<>>
    /\ web = BlankWeb
    /\ linux_opts = NotFound
    /\ description = NoDescription
    /\ freebsd_opts = NotFound
    /\ solaris_opts = NotFound
    /\ aix_opts = NotFound
    /\ plan_9_opts = NotFound
    /\ posix_7_opts = NotFound
    /\ report = NoReport
    /\ exc = ""
    /\ fetch_log = <<>>
    /\ served = {}
    /\ refetched = {}
    /\ soup_in = DocBare
    /\ section_in = ""
    /\ sect_out = Ret({})

ResetLocals ==
    /\ linux_opts' = NotFound
    /\ description' = NoDescription
    /\ freebsd_opts' = NotFound
    /\ solaris_opts' = NotFound
    /\ aix_opts' = NotFound
    /\ plan_9_opts' = NotFound
    /\ posix_7_opts' = NotFound
    /\ fetch_log' = <<>>

\* lines 46-53: a line is read and split; an empty command is skipped
ReadInput ==
    /\ pc = "input"
    /\ \E line \in UserInputs :
         /\ command' = line
         /\ IF line = <<>>
            THEN pc' = "continue" /\ web' = BlankWeb
            ELSE pc' = "linux" /\ web' \in Worlds
    /\ report' = NoReport
    /\ ResetLocals
    /\ UNCHANGED exc
    /\ StudyUnchanged

\* lines 46, 48: input() raises EOFError at end of input, shlex.split raises
\* ValueError on an unclosed quotation; main catches neither
InputRaises ==
    /\ pc = "input"
    /\ \E e \in {"EOFError", "ValueError"} : exc' = e
    /\ pc' = "crashed"
    /\ command' = <<>>
    /\ web' = BlankWeb
    /\ report' = NoReport
    /\ ResetLocals
    /\ StudyUnchanged

\* An adapter call that raised: nothing in input_loop or main catches it.
Crash(r) ==
    /\ pc' = "crashed"
    /\ exc' = r.exc
    /\ fetch_log' = fetch_log \o r.log

\* line 55
CallLinux ==
    /\ pc = "linux"
    /\ \E k \in 0..1 :
         LET r == get_linux_opts(command_name, web, k) IN
         IF r.exc # ""
         THEN Crash(r) /\ UNCHANGED <<linux_opts, description>>
         ELSE /\ linux_opts' = r.val
              /\ description' = r.desc
              /\ fetch_log' = fetch_log \o r.log
              /\ pc' = "freebsd"
              /\ UNCHANGED exc
    /\ UNCHANGED <<command, web, freebsd_opts, solaris_opts, aix_opts,
                   plan_9_opts, posix_7_opts, report>>
    /\ StudyUnchanged

\* line 56
CallFreeBSD ==
    /\ pc = "freebsd"
    /\ \E k \in 0..1 :
         LET r == get_freebsd_opts(command_name, web, k) IN
         IF r.exc # ""
         THEN Crash(r) /\ UNCHANGED freebsd_opts
         ELSE /\ freebsd_opts' = r.val
              /\ fetch_log' = fetch_log \o r.log
              /\ pc' = "solaris"
              /\ UNCHANGED exc
    /\ UNCHANGED <<command, web, linux_opts, description, solaris_opts, aix_opts,
                   plan_9_opts, posix_7_opts, report>>
    /\ StudyUnchanged

\* line 57
CallSolaris ==
    /\ pc = "solaris"
    /\ \E k \in 0..2 :
         LET r == get_solaris_opts(command_name, web, k) IN
         IF r.exc # ""
         THEN Crash(r) /\ UNCHANGED solaris_opts
         ELSE /\ solaris_opts' = r.val
              /\ fetch_log' = fetch_log \o r.log
              /\ pc' = "aix"
              /\ UNCHANGED exc
    /\ UNCHANGED <<command, web, linux_opts, description, freebsd_opts, aix_opts,
                   plan_9_opts, posix_7_opts, report>>
    /\ StudyUnchanged

\* line 58
CallAix ==
    /\ pc = "aix"
    /\ \E k \in 0..NUM_AIX_CMD_VOLUMES :
         LET r == get_aix_opts(command_name, web, k) IN
         IF r.exc # ""
         THEN Crash(r) /\ UNCHANGED aix_opts
         ELSE /\ aix_opts' = r.val
              /\ fetch_log' = fetch_log \o r.log
              /\ pc' = "check"
              /\ UNCHANGED exc
    /\ UNCHANGED <<command, web, linux_opts, description, freebsd_opts, solaris_opts,
                   plan_9_opts, posix_7_opts, report>>
    /\ StudyUnchanged

\* lines 60-63
CheckFound ==
    /\ pc = "check"
    /\ IF TotalFailure(linux_opts, freebsd_opts, solaris_opts, aix_opts)
       THEN report' = FailedReport /\ pc' = "continue"
       ELSE report' = report /\ pc' = "plan9"
    /\ UNCHANGED <<command, web, linux_opts, description, freebsd_opts, solaris_opts,
                   aix_opts, plan_9_opts, posix_7_opts, exc, fetch_log>>
    /\ StudyUnchanged

\* line 68
CallPlan9 ==
    /\ pc = "plan9"
    /\ \E k \in 0..1 :
         LET r == get_plan_9_opts(command_name, web, k) IN
         IF r.exc # ""
         THEN Crash(r) /\ UNCHANGED plan_9_opts
         ELSE /\ plan_9_opts' = r.val
              /\ fetch_log' = fetch_log \o r.log
              /\ pc' = "posix"
              /\ UNCHANGED exc
    /\ UNCHANGED <<command, web, linux_opts, description, freebsd_opts, solaris_opts,
                   aix_opts, posix_7_opts, report>>
    /\ StudyUnchanged

\* line 69
CallPosix7 ==
    /\ pc = "posix"
    /\ \E k \in 0..1 :
         LET r == get_posix_7_opts(command_name, web, k) IN
         IF r.exc # ""
         THEN Crash(r) /\ UNCHANGED posix_7_opts
         ELSE /\ posix_7_opts' = r.val
              /\ fetch_log' = fetch_log \o r.log
              /\ pc' = "print"
              /\ UNCHANGED exc
    /\ UNCHANGED <<command, web, linux_opts, description, freebsd_opts, solaris_opts,
                   aix_opts, plan_9_opts, report>>
    /\ StudyUnchanged

\* lines 71-111
PrintReport ==
    /\ pc = "print"
    /\ report' = BuildReport(command, description, linux_opts, freebsd_opts,
                             solaris_opts, aix_opts, plan_9_opts, posix_7_opts)
    /\ pc' = "continue"
    /\ UNCHANGED <<command, web, linux_opts, description, freebsd_opts, solaris_opts,
                   aix_opts, plan_9_opts, posix_7_opts, exc, fetch_log>>
    /\ StudyUnchanged

\* line 45 after line 63 or line 111: the loop goes round to the prompt; what
\* the iteration left in the locals is overwritten before it is read again
LoopBack ==
    /\ pc = "continue"
    /\ pc' = "input"
    /\ command' = <<>>
    /\ web' = BlankWeb
    /\ report' = NoReport
    /\ ResetLocals
    /\ UNCHANGED exc
    /\ StudyUnchanged

\* lines 38-41: ^C anywhere in input_loop ends the program with exit(0)
Interrupt ==
    /\ pc \notin {"crashed", "exited"}
    /\ pc' = "exited"
    /\ command' = <<>>
    /\ web' = BlankWeb
    /\ report' = NoReport
    /\ ResetLocals
    /\ UNCHANGED exc
    /\ StudyUnchanged

Next ==
    \/ ReadInput
    \/ InputRaises
    \/ CallLinux
    \/ CallFreeBSD
    \/ CallSolaris
    \/ CallAix
    \/ CheckFound
    \/ CallPlan9
    \/ CallPosix7
    \/ PrintReport
    \/ LoopBack
    \/ Interrupt

Spec == Init /\ [][Next]_vars

-----------------------------------------------------------------------------
(* Properties of one iteration of input_loop *)

\* The iteration has run to its end (line 63 or line 111).
IterDone == pc = "continue" /\ command # <<>>

\* requests.get came back with a status outside 200-299.
StatusFails(res) == res.status_code < 200 \/ res.status_code > 299

\* The result of each adapter under the name the report uses for it.  Plan 9
\* and POSIX.7 are not called on the total-failure path: there, what they
\* would return is what they return against the same pages.
ResultOf(name) ==
    CASE name = "GNU/Linux" -> linux_opts
      [] name = "FreeBSD"   -> freebsd_opts
      [] name = "Solaris"   -> solaris_opts
      [] name = "AIX"       -> aix_opts
      [] name = "Plan 9"    -> IF report.kind = "report" THEN plan_9_opts
                               ELSE get_plan_9_opts(command_name, web, 0).val
      [] name = "POSIX 7"   -> IF report.kind = "report" THEN posix_7_opts
                               ELSE get_posix_7_opts(command_name, web, 0).val

SixPlatforms == {"GNU/Linux", "FreeBSD", "Solaris", "Plan 9", "POSIX 7", "AIX"}

\* C1: when a report is printed (some adapter returned Found), the list
\* printed for a requested option names no platform whose adapter returned
\* None.
C1_AbsentNeverListed ==
    (IterDone /\ report.kind = "report") =>
        \A opt \in DOMAIN report.not_available :
            \A name \in Range(report.not_available[opt]) : ResultOf(name).found

\* Linux documents the command without -Z, FreeBSD is absent, and -Z is
\* reported unavailable on GNU/Linux only.
C1_Witness ==
    /\ IterDone /\ report.kind = "report"
    /\ linux_opts.found /\ ~freebsd_opts.found
    /\ Opt("Z") \in DOMAIN report.not_available
    /\ report.not_available[Opt("Z")] = <<"GNU/Linux">>
    /\ "FreeBSD" \in Range(report.absent)

\* C2: in a report, the list of an option is exactly the platforms, of all
\* six, whose adapter returned Found with a set that lacks the option.
C2_ListIsExactlyFoundWithout ==
    (IterDone /\ report.kind = "report") =>
        \A opt \in DOMAIN report.not_available :
            Range(report.not_available[opt]) =
                {name \in SixPlatforms :
                    ResultOf(name).found /\ opt \notin ResultOf(name).opts}

\* C3: a platform that is Found with the empty set is listed for every
\* requested option and gets no absence note; a platform that is NotFound
\* is in no list (stated over the four platforms the lists can name, and
\* over the platforms that can get an absence note).
C3_EmptyFoundIsNotAbsent ==
    (IterDone /\ report.kind = "report") =>
        \A name \in {"GNU/Linux", "FreeBSD", "Plan 9", "Solaris"} :
            /\ (ResultOf(name).found /\ ResultOf(name).opts = {}) =>
                   /\ \A opt \in DOMAIN report.not_available :
                          name \in Range(report.not_available[opt])
                   /\ name \notin Range(report.absent)
            /\ ~ResultOf(name).found =>
                   \A opt \in DOMAIN report.not_available :
                       name \notin Range(report.not_available[opt])

\* C4: when every one of the six adapters returns None the iteration prints
\* the failure line and nothing else, and goes back to the prompt.
C4_TotalFailureReport ==
    (IterDone /\ \A name \in SixPlatforms : ~ResultOf(name).found) =>
        /\ report.kind = "failed"
        /\ report.absent = <<>>
        /\ DOMAIN report.not_available = {}
        /\ report.links = <<>>
        /\ report.description = NoDescription

\* A command with options requested that no page documents.
C4_Witness ==
    /\ IterDone
    /\ \A name \in SixPlatforms : ~ResultOf(name).found
    /\ UserOpts(command) # {}
    /\ report.kind = "failed"

\* The report of the aggregator that calls all six adapters whatever the
\* first four return, and fails only when all six return None.
ReferenceReport(cmd, w) ==
    LET l  == get_linux_opts(cmd[1], w, 0)
        f  == get_freebsd_opts(cmd[1], w, 0).val
        s  == get_solaris_opts(cmd[1], w, 0).val
        a  == get_aix_opts(cmd[1], w, 0).val
        p9 == get_plan_9_opts(cmd[1], w, 0).val
        px == get_posix_7_opts(cmd[1], w, 0).val
    IN  IF ~l.val.found /\ ~f.found /\ ~s.found /\ ~a.found /\ ~p9.found /\ ~px.found
        THEN FailedReport
        ELSE BuildReport(cmd, l.desc, l.val, f, s, a, p9, px)

\* C5: deferring Plan 9 and POSIX.7 changes nothing: the iteration prints
\* what the aggregator calling all six unconditionally would print.
C5_DeferralChangesNothing ==
    IterDone => report = ReferenceReport(command, web)

\* C6: a fetch that fails, by its status or at transport level, does not
\* end the program.
C6_FetchFailureNotFatal ==
    exc # "ConnectionError"

\* The Plan 9 requests of the iteration.
Plan9Log == SelectSeq(fetch_log, LAMBDA p : p = PLAN_9_MAN_PAGES)

\* get_plan_9_opts has returned in this iteration.
Plan9Returned ==
    \/ pc \in {"posix", "print"}
    \/ pc = "continue" /\ report.kind = "report"
    \/ pc = "crashed" /\ fetch_log # <<>> /\ fetch_log[Len(fetch_log)] = POSIX7_PAGES

\* get_plan_9_opts was ended by its request raising.
Plan9Raised ==
    pc = "crashed" /\ fetch_log # <<>> /\ fetch_log[Len(fetch_log)] = PLAN_9_MAN_PAGES

-----------------------------------------------------------------------------
(* The AIX probe on every arrangement of the six volumes *)

AixVolumeResponses == OkResponses \cup {NotFoundResponse}

\* input_loop about to call get_aix_opts (line 58) for a command the other
\* three sites do not have, each AIX volume answering in any way.
InitAix ==
    /\ pc = "aix"
    /\ command = << <<"g", "r", "e", "p">>, Opt("i") >>
    /\ \E a \in [AixVolumes -> AixVolumeResponses] :
         web = MakeWeb(NotFoundResponse, NotFoundResponse, NotFoundResponse,
                       NotFoundResponse, NotFoundResponse, NotFoundResponse, a)
    /\ linux_opts = NotFound
    /\ description = NoDescription
    /\ freebsd_opts = NotFound
    /\ solaris_opts = NotFound
    /\ aix_opts = NotFound
    /\ plan_9_opts = NotFound
    /\ posix_7_opts = NotFound
    /\ report = NoReport
    /\ exc = ""
    /\ fetch_log = <<LINUX_MAN_PAGES, FREEBSD_MAN_PAGES, SOLARIS_USER_MAN_PAGES,
                     SOLARIS_ADMIN_MAN_PAGES>>
    /\ served = {}
    /\ refetched = {}
    /\ soup_in = DocBare
    /\ section_in = ""
    /\ sect_out = Ret({})

NextAix ==
    \/ CallAix
    \/ CheckFound

SpecAix == InitAix /\ [][NextAix]_vars

\* The volumes requested by get_aix_opts, in the order requested.
AixLog ==
    LET l == SelectSeq(fetch_log, LAMBDA p : p.site = "AIX")
    IN  [i \in 1..Len(l) |-> l[i].volume]

\* get_aix_opts has returned (not raised).
AixReturned == pc \in {"check", "plan9", "continue"}

\* C8: the volumes are requested in the order 1, 2, 3, ...; no volume is
\* requested after one whose request succeeded; a result that is not None
\* is extracted from the document of the last volume requested, which
\* succeeded; and None is returned only with all 6 volumes requested and
\* failed.
C8_AixProbeOrder ==
    /\ \A i \in 1..Len(AixLog) : AixLog[i] = i
    /\ \A i \in 1..(Len(AixLog) - 1) : StatusFails(web[AIX_MAN_PAGES(i)])
    /\ (AixReturned /\ aix_opts.found) =>
         /\ AixLog # <<>>
         /\ ~StatusFails(web[AIX_MAN_PAGES(Len(AixLog))])
         /\ aix_opts.opts =
               UnionSections(
                   find_opts_aix(web[AIX_MAN_PAGES(Len(AixLog))].doc, "Flags"),
                   find_opts_aix(web[AIX_MAN_PAGES(Len(AixLog))].doc, "Expression Terms")).opts
    /\ (AixReturned /\ ~aix_opts.found) =>
         /\ Len(AixLog) = NUM_AIX_CMD_VOLUMES
         /\ \A v \in AixVolumes : StatusFails(web[AIX_MAN_PAGES(v)])

\* Only volumes 4 and 5 hold the command, with different documents: 1, 2, 3,
\* 4 are requested, 5 and 6 are not, and the options are those of volume 4.
C8_Witness ==
    /\ AixReturned
    /\ AixLog = <<1, 2, 3, 4>>
    /\ web[AIX_MAN_PAGES(4)] = Response(200, FALSE, DocRich)
    /\ web[AIX_MAN_PAGES(5)] = Response(200, FALSE, DocBare)
    /\ aix_opts = Found({Opt("i")})

-----------------------------------------------------------------------------
(* The cache across calls of get_soup *)

CacheKeys ==
    {LINUX_MAN_PAGES, FREEBSD_MAN_PAGES, PLAN_9_MAN_PAGES} \X {CP, MV}

\* One call of get_soup(pages_string, command_name), the site answering in
\* any way.  served: the keys a document was fetched for; refetched: the
\* keys requested again after that.
CallGetSoup ==
    /\ pc = "input"
    /\ \E key \in CacheKeys, res \in OkResponses \cup {NotFoundResponse, SorryResponse} :
         LET g == get_soup(key[1], key[2], res, FALSE) IN
         /\ served' = IF g.page_found THEN served \cup {key} ELSE served
         /\ refetched' = IF g.fetched /\ key \in served
                         THEN refetched \cup {key} ELSE refetched
    /\ UNCHANGED <<pc, command, web, linux_opts, description, freebsd_opts,
                   solaris_opts, aix_opts, plan_9_opts, posix_7_opts, report, exc,
                   fetch_log, soup_in, section_in, sect_out>>

NextCache == CallGetSoup

SpecCache == Init /\ [][NextCache]_vars

\* C9: once a document has been fetched for a page and command name, no
\* later get_soup for the same page and name issues a request.
C9_NoRequestAfterFetched ==
    refetched = {}

-----------------------------------------------------------------------------
(* Section-scoped extraction on bounded documents *)

MaxSourceLine == 3
MaxElems == 2

SourceLines == 1..MaxSourceLine

SeqsUpTo(S, n) == UNION {[1..k -> S] : k \in 0..n}

\* find_all and find(id=...) give elements in document order, so their
\* source lines never decrease.
InDocOrder(els) == \A i \in 1..(Len(els) - 1) : els[i].sourceline <= els[i + 1].sourceline

\* The documents below have at most n elements of a kind (MaxElems where
\* they are used), at source lines up to MaxSourceLine.

\* Texts of a <pre>, split on newlines: empty; one option; an option between
\* an empty line and a line of blanks; two options, one a false positive.
PreTexts ==
    { <<>>,
      << <<" ", " ", "-", "a">> >>,
      << <<>>, <<" ", " ", "-", "a">>, <<" ", " ">> >>,
      << <<"-", "a">>, <<" ", "-", "b", ".">> >> }

BoldTexts == { <<"-", "a">>, <<"-">>, <<"-", "b", ".">>, <<>> }

\* get_linux_opts reads the second <pre> before it calls find_opts_linux
\* (line 170), so the documents find_opts_linux sees have two at least.
EmptyDoc == [pres |-> <<>>, ided |-> <<>>, text |-> <<>>, tts |-> <<>>, dts |-> <<>>,
             h3s |-> <<>>, bolds |-> <<>>]

LinuxSectDocs(n) ==
    { [EmptyDoc EXCEPT !.ided = i, !.pres = p] :
        i \in {x \in SeqsUpTo([id : {"NAME", "OPTIONS"}, sourceline : SourceLines], n) :
                 InDocOrder(x)},
        p \in {x \in SeqsUpTo([sourceline : SourceLines, lines : PreTexts], n) :
                 InDocOrder(x) /\ Len(x) >= 2} }

AixSectDocs(n) ==
    { [EmptyDoc EXCEPT !.h3s = h, !.bolds = b] :
        h \in {x \in SeqsUpTo([text : {"Flags", "Expression Terms", "Examples"},
                               sourceline : SourceLines], n) : InDocOrder(x)},
        b \in {x \in SeqsUpTo([text : BoldTexts, sourceline : SourceLines], n) :
                 InDocOrder(x)} }

\* A fetched document and the section asked of it (lines 172-179, 332-339).
InitSect ==
    /\ pc = "section"
    /\ \/ soup_in \in LinuxSectDocs(MaxElems) /\ section_in \in {"OPTIONS", "EXPRESSION"}
       \/ soup_in \in AixSectDocs(MaxElems) /\ section_in \in {"Flags", "Expression Terms"}
    /\ sect_out = Ret({})
    /\ command = <<>>
    /\ web = BlankWeb
    /\ linux_opts = NotFound
    /\ description = NoDescription
    /\ freebsd_opts = NotFound
    /\ solaris_opts = NotFound
    /\ aix_opts = NotFound
    /\ plan_9_opts = NotFound
    /\ posix_7_opts = NotFound
    /\ report = NoReport
    /\ exc = ""
    /\ fetch_log = <<>>
    /\ served = {}
    /\ refetched = {}

SectUnchanged ==
    UNCHANGED <<command, web, linux_opts, description, freebsd_opts, solaris_opts,
                aix_opts, plan_9_opts, posix_7_opts, report, exc, fetch_log,
                served, refetched, soup_in, section_in>>

ApplyFindOptsLinux ==
    /\ pc = "section"
    /\ section_in \in {"OPTIONS", "EXPRESSION"}
    /\ sect_out' = find_opts_linux(soup_in, section_in)
    /\ pc' = "section_done"
    /\ SectUnchanged

ApplyFindOptsAix ==
    /\ pc = "section"
    /\ section_in \in {"Flags", "Expression Terms"}
    /\ sect_out' = find_opts_aix(soup_in, section_in)
    /\ pc' = "section_done"
    /\ SectUnchanged

NextSect ==
    \/ ApplyFindOptsLinux
    \/ ApplyFindOptsAix

SpecSect == InitSect /\ [][NextSect]_vars

\* C10: find_opts_linux and find_opts_aix return on every fetched document:
\* they never raise.
C10_SectionNeverRaises ==
    pc = "section_done" => sect_out.exc = ""

====
